---- MODULE Spec2Model ----
(***************************************************************************)
(* carSnap: the motion + YOLO capture loop of cameraPC.py and the          *)
(* per-day count of its snapshots by carAggregate.py.                      *)
(*                                                                         *)
(* One iteration of the `while True` loop is split at the places where the *)
(* program talks to the outside world: frame acquisition and region        *)
(* extraction (lines 47-65), one pass of the per-region detection loop     *)
(* (lines 66-95), the capture gate with the snapshot write (lines 98-107)  *)
(* and the preview / quit key (lines 110-112).                             *)
(*                                                                         *)
(* Modelling decisions:                                                    *)
(*  - `clock` is the value time.time() returns, in whole seconds.  It      *)
(*    never decreases.  The program starts at StartTime, a wall-clock      *)
(*    value far more than SAVE_COOLDOWN after the epoch, as every real     *)
(*    clock is; last_save_time starts at the literal 0 of line 40.         *)
(*  - confidences are percentages (CONF_THRESH 0.5 is 50).                 *)
(*  - OpenCV and the YOLO model are opaque: a contour is given by its      *)
(*    area, its bounding rectangle and what model.predict answers on the   *)
(*    pixels below that rectangle.  The crop is a view of `frame`, on      *)
(*    which lines 93-95 draw, so a later crop may contain earlier          *)
(*    drawings: `resMarked` is the answer on such a crop, `res` the        *)
(*    answer on untouched pixels.                                          *)
(*  - the outside world can fail: cap.read() reports failure, model.predict*)
(*    raises (nothing in the script catches it: pc becomes "crashed"),     *)
(*    cv2.imwrite returns False.                                           *)
(*  - the name of a snapshot is its local time to the second; `names`      *)
(*    keeps that time, and the section on file names computes the string   *)
(*    and what carAggregate.py reads from it, character by character.      *)
(***************************************************************************)
EXTENDS Integers, Sequences, FiniteSets, TLC

VARIABLES
    pc,             \* position of the program in the loop
    clock,          \* time.time()
    last_save_time, \* line 40 / line 107
    contours,       \* line 56, the contours of the current frame
    moving_boxes,   \* lines 58-62
    idx,            \* position of the `for ... in moving_boxes` loop (1-based)
    car_found,      \* line 65 / line 83
    calls,          \* the model.predict calls of this iteration, in order
    drawn,          \* the rectangles drawn on the frame in this iteration
    fired,          \* whether this iteration's gate saved a photo
    events,         \* the time.time() of line 103 of every capture so far
    released,       \* cap.release() was called (line 117)
    present,        \* edge-triggered variant: state of the gate
    dets,           \* edge-triggered variant: the detections seen so far
    ret,            \* line 47: what the last cap.read() reported
    key,            \* line 111: whether the last cv2.waitKey saw 'q'
    written,        \* line 105: whether this iteration's cv2.imwrite stored the file
    log,            \* line 106: what this iteration's gate printed
    names,          \* line 104: the timestamp of every file name given to cv2.imwrite
    utc_offset,     \* seconds by which local time (datetime.now()) is ahead of clock
    folder,         \* carAggregate.py: the names of the files of the scanned folder
    files,          \* carAggregate.py: the result of find_files
    counts,         \* carAggregate.py: the result of aggregate_counts
    scanned         \* carAggregate.py: main has run

\* the aggregation tool's state
aggVars == <<folder, files, counts, scanned>>

\* what the capture loop adds to the state of its first sections
ioVars == <<ret, key, written, log, names, utc_offset>>

vars == <<pc, clock, last_save_time, contours, moving_boxes, idx, car_found,
          calls, drawn, fired, events, released, present, dets, ioVars, aggVars>>

----------------------------------------------------------------------------
(* Configuration, cameraPC.py lines 13-18 and 73 *)

FRAME_WIDTH == 1280
FRAME_HEIGHT == 720
CAR_CLASSES == {2, 3, 5, 7}
CONF_THRESH == 50
MIN_CONTOUR_AREA == 500
SAVE_COOLDOWN == 10
detect_size == 640

(* Bounds of the model *)

StartTime == 1000     \* time.time() when the loop starts
Horizon == 12         \* the loop is followed for this many seconds
MaxFrameGap == 11     \* longest time between two iterations
MaxWriteTime == 1     \* longest time between line 103 and line 107
MaxContours == 2      \* contours per frame
LongHorizon == 25     \* the same, for the runs in which every frame shows a vehicle
MaxEdgeFrames == 7    \* frames fed to the edge-triggered gate

LocalShift == 11      \* seconds by which local time is set back (3600 at the end of
                      \* daylight saving time; anything above SAVE_COOLDOWN acts alike)

----------------------------------------------------------------------------
(* Inputs: what the camera, OpenCV and the model can hand to the loop *)

Box(c, p, a, b, cc, d) == [cls |-> c, conf |-> p, x1 |-> a, y1 |-> b, x2 |-> cc, y2 |-> d]

CarHi == Box(2, 90, 101, 201, 301, 401)
BusEdge == Box(5, 50, 0, 0, 640, 640)
CarLow == Box(2, 49, 10, 10, 20, 20)
Person == Box(0, 90, 30, 40, 50, 60)

Cnt(a, px, py, pw, ph, r, rm) ==
    [area |-> a, x |-> px, y |-> py, w |-> pw, h |-> ph, res |-> r, resMarked |-> rm]

\* a contour whose crop is detect_size x detect_size, one that is scaled and
\* one that lies outside the frame
Full(a, r, rm) == Cnt(a, 64, 32, 640, 640, r, rm)
Small(a, r, rm) == Cnt(a, 100, 50, 320, 160, r, rm)
Outside(a, r, rm) == Cnt(a, 1280, 0, 10, 10, r, rm)

ContourKinds ==
    {Small(501, <<CarHi>>, <<CarHi>>),
     Full(501, <<BusEdge, Person>>, <<Person>>),
     Small(2000, <<Person, CarLow>>, <<CarLow, CarHi>>),
     Outside(501, <<CarHi>>, <<CarHi>>),
     Full(500, <<CarHi>>, <<CarHi>>)}

RECURSIVE SeqsUpTo(_, _)
SeqsUpTo(S, n) ==
    IF n = 0 THEN {<<>>}
    ELSE LET shorter == SeqsUpTo(S, n - 1)
         IN shorter \cup {Append(s, e) : s \in {t \in shorter : Len(t) = n - 1}, e \in S}

Frames == SeqsUpTo(ContourKinds, MaxContours)

----------------------------------------------------------------------------
(* Region extraction, lines 58-62 *)

IsMovingLoose(cnt) == cnt.area >= MIN_CONTOUR_AREA

IsMoving(cnt) == cnt.area > MIN_CONTOUR_AREA

\* cv2.boundingRect(cnt), with the pixels below it
BoundingRect(cnt) ==
    [x |-> cnt.x, y |-> cnt.y, w |-> cnt.w, h |-> cnt.h,
     res |-> cnt.res, resMarked |-> cnt.resMarked]

RECURSIVE MovingBoxes(_)
MovingBoxes(cs) ==
    IF cs = <<>> THEN <<>>
    ELSE IF IsMoving(Head(cs))
         THEN <<BoundingRect(Head(cs))>> \o MovingBoxes(Tail(cs))
         ELSE MovingBoxes(Tail(cs))

----------------------------------------------------------------------------
(* Detection on one region, lines 68-95 *)

Min(a, b) == IF a < b THEN a ELSE b

\* number of elements of frame[y:y+h, x:x+w] (numpy clamps a slice to the array)
CropSize(r) ==
    LET rows == Min(r.y + r.h, FRAME_HEIGHT) - Min(r.y, FRAME_HEIGHT)
        cols == Min(r.x + r.w, FRAME_WIDTH) - Min(r.x, FRAME_WIDTH)
    IN rows * cols * 3

NeverSkip(r) == FALSE

\* line 69
SkipCrop(r) == CropSize(r) = 0

\* line 77: the answer of model.predict on the crop of r
Predict(r, marks) == IF marks = <<>> THEN r.res ELSE r.resMarked

QualifiesStrict(box) == box.cls \in CAR_CLASSES /\ box.conf > CONF_THRESH

\* line 82
Qualifies(box) == box.cls \in CAR_CLASSES /\ box.conf >= CONF_THRESH

RemapNoOffset(box, r) ==
    [cls |-> box.cls, conf |-> box.conf,
     x1 |-> (box.x1 * r.w) \div detect_size,
     y1 |-> (box.y1 * r.h) \div detect_size,
     x2 |-> (box.x2 * r.w) \div detect_size,
     y2 |-> (box.y2 * r.h) \div detect_size]

RemapOneScale(box, r) ==
    [cls |-> box.cls, conf |-> box.conf,
     x1 |-> (box.x1 * r.w) \div detect_size + r.x,
     y1 |-> (box.y1 * r.w) \div detect_size + r.y,
     x2 |-> (box.x2 * r.w) \div detect_size + r.x,
     y2 |-> (box.y2 * r.w) \div detect_size + r.y]

\* lines 85-91; every w and h of the model makes w / detect_size exact
Remap(box, r) ==
    [cls |-> box.cls, conf |-> box.conf,
     x1 |-> (box.x1 * r.w) \div detect_size + r.x,
     y1 |-> (box.y1 * r.h) \div detect_size + r.y,
     x2 |-> (box.x2 * r.w) \div detect_size + r.x,
     y2 |-> (box.y2 * r.h) \div detect_size + r.y]

FoundLast(found, out) == \E k \in 1..Len(out) : Qualifies(out[k])

\* lines 79-83: car_found after the boxes of one result
FoundAfter(found, out) == found \/ \E k \in 1..Len(out) : Qualifies(out[k])

\* lines 79-95: the rectangles drawn for one result
RECURSIVE Annotations(_, _)
Annotations(out, r) ==
    IF out = <<>> THEN <<>>
    ELSE IF Qualifies(Head(out))
         THEN <<Remap(Head(out), r)>> \o Annotations(Tail(out), r)
         ELSE Annotations(Tail(out), r)

\* one pass of the loop body for region r, the i-th of moving_boxes
DetectRegion(st, i, r) ==
    IF SkipCrop(r) THEN st
    ELSE LET out == Predict(r, st.drawn)
         IN [car_found |-> FoundAfter(st.car_found, out),
             calls |-> Append(st.calls, [i |-> i, out |-> out]),
             drawn |-> st.drawn \o Annotations(out, r)]

\* lines 65-95 as a whole, on a list of regions
RECURSIVE DetectFrom(_, _, _)
DetectFrom(st, i, boxes) ==
    IF i > Len(boxes) THEN st
    ELSE DetectFrom(DetectRegion(st, i, boxes[i]), i + 1, boxes)

DetectAll(boxes) ==
    DetectFrom([car_found |-> FALSE, calls |-> <<>>, drawn |-> <<>>], 1, boxes)

----------------------------------------------------------------------------
(* Capture gate, line 103 *)

CooldownReached(now, last) == now - last >= SAVE_COOLDOWN

CooldownPassed(now, last) == now - last > SAVE_COOLDOWN

SaveOnce(found, now, last) == found /\ last = 0

SaveAlways(found, now, last) == found

SaveOnCooldown(found, now, last) == CooldownPassed(now, last)

ShouldSave(found, now, last) == found /\ CooldownPassed(now, last)

----------------------------------------------------------------------------
(* The loop *)

Init ==
    /\ pc = "read"
    /\ clock = StartTime
    /\ last_save_time = 0
    /\ contours = <<>>
    /\ moving_boxes = <<>>
    /\ idx = 1
    /\ car_found = FALSE
    /\ calls = <<>>
    /\ drawn = <<>>
    /\ fired = FALSE
    /\ events = <<>>
    /\ released = FALSE
    /\ present = FALSE
    /\ dets = <<>>
    /\ ret = TRUE
    /\ key = FALSE
    /\ written = FALSE
    /\ log = "nothing"
    /\ names = <<>>
    /\ utc_offset = 0
    /\ folder = <<>>
    /\ files = <<>>
    /\ counts = <<>>
    /\ scanned = FALSE

ReadFailSkipsFrame ==
    /\ pc = "read"
    /\ ret' = FALSE
    /\ pc' = "read"
    /\ UNCHANGED <<clock, last_save_time, contours, moving_boxes, idx, car_found,
                   calls, drawn, fired, events, released, present, dets>>
    /\ UNCHANGED <<key, written, log, names, utc_offset, aggVars>>

\* lines 47-50: cap.read() fails, the loop is left
ReadFail ==
    /\ pc = "read"
    /\ ret' = FALSE
    /\ pc' = "cleanup"
    /\ UNCHANGED <<clock, last_save_time, contours, moving_boxes, idx, car_found,
                   calls, drawn, fired, events, released, present, dets>>
    /\ UNCHANGED <<key, written, log, names, utc_offset, aggVars>>

\* lines 47-65: a frame with contours f is read and its moving regions extracted
Acquire(f) ==
    /\ pc = "read"
    /\ ret' = TRUE
    /\ contours' = f
    /\ moving_boxes' = MovingBoxes(f)
    /\ car_found' = FALSE
    /\ idx' = 1
    /\ calls' = <<>>
    /\ drawn' = <<>>
    /\ fired' = FALSE
    /\ pc' = IF MovingBoxes(f) = <<>> THEN "gate" ELSE "detect"
    /\ UNCHANGED <<clock, last_save_time, events, released, present, dets>>
    /\ UNCHANGED <<key, written, log, names, utc_offset, aggVars>>

\* lines 66-95: the loop body for the next region
Detect ==
    /\ pc = "detect"
    /\ idx <= Len(moving_boxes)
    /\ LET st == DetectRegion([car_found |-> car_found, calls |-> calls, drawn |-> drawn],
                              idx, moving_boxes[idx])
       IN /\ car_found' = st.car_found
          /\ calls' = st.calls
          /\ drawn' = st.drawn
    /\ idx' = idx + 1
    /\ pc' = IF idx = Len(moving_boxes) THEN "gate" ELSE "detect"
    /\ UNCHANGED <<clock, last_save_time, contours, moving_boxes, fired, events,
                   released, present, dets>>
    /\ UNCHANGED <<ioVars, aggVars>>

\* line 77: model.predict raises on the crop of the next region; nothing in
\* the script catches the exception, the interpreter ends with a traceback
PredictRaises ==
    /\ pc = "detect"
    /\ idx <= Len(moving_boxes)
    /\ ~SkipCrop(moving_boxes[idx])
    /\ pc' = "crashed"
    /\ UNCHANGED <<clock, last_save_time, contours, moving_boxes, idx, car_found,
                   calls, drawn, fired, events, released, present, dets>>
    /\ UNCHANGED <<ioVars, aggVars>>

\* line 98: datetime.datetime.now(), local time to the second
LocalTime(now, offset) == now + offset

StampAlways(fire, last, t) == t

\* lines 103 and 107: last_save_time after the gate, t being the time of line 107
NextSaveTime(fire, last, t) == IF fire THEN t ELSE last

\* lines 98-107: the gate; a save takes wd seconds between line 103 and line 107
\* and cv2.imwrite answers ok (it reports a failed write by returning False)
Gate(ok, wd, horizon) ==
    /\ pc = "gate"
    /\ LET fire == ShouldSave(car_found, clock, last_save_time)
       IN /\ fire => clock + wd <= StartTime + horizon
          /\ fired' = fire
          /\ events' = IF fire THEN Append(events, clock) ELSE events
          /\ names' = IF fire THEN Append(names, LocalTime(clock, utc_offset)) ELSE names
          /\ written' = (fire /\ ok)
          /\ log' = IF fire THEN "saved" ELSE "nothing"
          /\ clock' = IF fire THEN clock + wd ELSE clock
          /\ last_save_time' = NextSaveTime(fire, last_save_time, clock + wd)
    /\ pc' = "show"
    /\ UNCHANGED <<contours, moving_boxes, idx, car_found, calls, drawn,
                   released, present, dets>>
    /\ UNCHANGED <<ret, key, utc_offset, aggVars>>

ShowIgnoresQuit(quit, dt, horizon) ==
    /\ pc = "show"
    /\ key' = quit
    /\ clock + dt <= StartTime + horizon
    /\ pc' = "read"
    /\ clock' = clock + dt
    /\ contours' = <<>>
    /\ moving_boxes' = <<>>
    /\ idx' = 1
    /\ car_found' = FALSE
    /\ calls' = <<>>
    /\ drawn' = <<>>
    /\ fired' = FALSE
    /\ written' = FALSE
    /\ log' = "nothing"
    /\ UNCHANGED <<last_save_time, events, released, present, dets>>
    /\ UNCHANGED <<ret, names, utc_offset, aggVars>>

\* lines 110-112: preview, quit key; dt seconds pass until the next iteration
Show(quit, dt, horizon) ==
    /\ pc = "show"
    /\ key' = quit
    /\ IF quit
       THEN /\ pc' = "cleanup"
            /\ UNCHANGED clock
            /\ UNCHANGED <<contours, moving_boxes, idx, car_found, calls, drawn, fired>>
            /\ UNCHANGED <<written, log>>
       ELSE /\ clock + dt <= StartTime + horizon
            /\ pc' = "read"
            /\ clock' = clock + dt
            \* dead from here on: lines 47, 56, 58 and 65 assign them anew
            /\ contours' = <<>>
            /\ moving_boxes' = <<>>
            /\ idx' = 1
            /\ car_found' = FALSE
            /\ calls' = <<>>
            /\ drawn' = <<>>
            /\ fired' = FALSE
            /\ written' = FALSE
            /\ log' = "nothing"
    /\ UNCHANGED <<last_save_time, events, released, present, dets>>
    /\ UNCHANGED <<ret, names, utc_offset, aggVars>>

\* lines 117-119
Cleanup ==
    /\ pc = "cleanup"
    /\ released' = TRUE
    /\ pc' = "stopped"
    /\ UNCHANGED <<clock, last_save_time, contours, moving_boxes, idx, car_found,
                   calls, drawn, fired, events, present, dets>>
    /\ UNCHANGED <<ioVars, aggVars>>

Next ==
    \/ ReadFail
    \/ \E f \in Frames : Acquire(f)
    \/ Detect
    \/ PredictRaises
    \/ \E ok \in BOOLEAN, wd \in 0..MaxWriteTime : Gate(ok, wd, Horizon)
    \/ \E quit \in BOOLEAN, dt \in 0..MaxFrameGap : Show(quit, dt, Horizon)
    \/ Cleanup

Spec == Init /\ [][Next]_vars

----------------------------------------------------------------------------
(* Runs in which every frame shows a vehicle and nobody quits *)

\* the frames on which the detection phase ends with car_found
QualifyingFrames == {f \in Frames : DetectAll(MovingBoxes(f)).car_found}

\* one frame per second, the snapshot written within the second
ScenarioNext ==
    \/ \E f \in QualifyingFrames : Acquire(f)
    \/ Detect
    \/ Gate(TRUE, 0, LongHorizon)
    \/ Show(FALSE, 1, LongHorizon)

ScenarioSpec == Init /\ [][ScenarioNext]_vars

\* time keeps advancing: at least a second between two iterations
SustainedNext ==
    \/ \E f \in QualifyingFrames : Acquire(f)
    \/ Detect
    \/ \E ok \in BOOLEAN, wd \in 0..MaxWriteTime : Gate(ok, wd, LongHorizon)
    \/ \E dt \in 1..MaxFrameGap : Show(FALSE, dt, LongHorizon)

\* the loop is sequential and never waits for anything but the next frame
SustainedSpec == Init /\ [][SustainedNext]_vars /\ WF_vars(SustainedNext)

----------------------------------------------------------------------------
(* The edge-triggered gate of the simpler variant of the program *)

EdgeFiresLevel(d, p) == d

\* a capture fires on a detection that follows an absence
EdgeFires(d, p) == d /\ ~p

\* `present` after a frame: raised with the capture, lowered by the first
\* frame without a detection, otherwise kept
EdgePresent(d, p) ==
    IF d /\ ~p THEN TRUE
    ELSE IF ~d /\ p THEN FALSE
    ELSE p

EdgeFrame(d) ==
    /\ Len(dets) < MaxEdgeFrames
    /\ dets' = Append(dets, d)
    /\ events' = IF EdgeFires(d, present) THEN Append(events, Len(dets) + 1) ELSE events
    /\ present' = EdgePresent(d, present)
    /\ UNCHANGED <<pc, clock, last_save_time, contours, moving_boxes, idx, car_found,
                   calls, drawn, fired, released>>
    /\ UNCHANGED <<ioVars, aggVars>>

EdgeNext == \E d \in BOOLEAN : EdgeFrame(d)

EdgeSpec == Init /\ [][EdgeNext]_vars

----------------------------------------------------------------------------
(* Local time.  time.time() counts seconds since the epoch, but the file name
   of a snapshot comes from datetime.datetime.now() (line 98), the naive local
   time, and local time is set back when daylight saving time ends.  The
   claims about the gate do not depend on local time; the one about file
   names is checked with the step below added. *)

FallBack ==
    /\ pc = "read"
    /\ utc_offset = 0
    /\ utc_offset' = 0 - LocalShift
    /\ UNCHANGED <<pc, clock, last_save_time, contours, moving_boxes, idx, car_found,
                   calls, drawn, fired, events, released, present, dets>>
    /\ UNCHANGED <<ret, key, written, log, names, aggVars>>

LocalNext ==
    \/ Next
    \/ FallBack

LocalSpec == Init /\ [][LocalNext]_vars

----------------------------------------------------------------------------
(* File names.  A string is a sequence of one-character strings, so that
   formatting, matching and parsing are computed character by character. *)

Digits == <<"0", "1", "2", "3", "4", "5", "6", "7", "8", "9">>

IsDigit(c) == \E n \in 1..Len(Digits) : Digits[n] = c

DigitValue(c) == (CHOOSE n \in 1..Len(Digits) : Digits[n] = c) - 1

\* the zero-padded decimal fields of strftime: %Y, %m, %d, %H, %M, %S
RECURSIVE Pad(_, _)
Pad(n, width) ==
    IF width = 0 THEN <<>>
    ELSE Pad(n \div 10, width - 1) \o <<Digits[(n % 10) + 1]>>

\* int() of a string of digits
RECURSIVE ToInt(_)
ToInt(str) ==
    IF str = <<>> THEN 0
    ELSE 10 * ToInt(SubSeq(str, 1, Len(str) - 1)) + DigitValue(str[Len(str)])

\* str.replace(a, b) for single characters
Replace(str, a, b) == [i \in 1..Len(str) |-> IF str[i] = a THEN b ELSE str[i]]

\* cameraPC.py line 98: now.strftime("%Y-%m-%d %H:%M:%S")
Strftime(t) ==
    Pad(t.year, 4) \o <<"-">> \o Pad(t.month, 2) \o <<"-">> \o Pad(t.day, 2) \o <<" ">>
    \o Pad(t.hour, 2) \o <<":">> \o Pad(t.minute, 2) \o <<":">> \o Pad(t.second, 2)

FileNameKeepsColons(t) == Strftime(t) \o <<".", "j", "p", "g">>

\* cameraPC.py line 104: the name of the file inside OUTPUT_DIR
FileName(t) == Replace(Strftime(t), ":", "-") \o <<".", "j", "p", "g">>

(* carAggregate.py *)

\* line 14: DATE_RE.match(name)
DateReMatch(name) ==
    /\ Len(name) >= 19
    /\ \A i \in {1, 2, 3, 4, 6, 7, 9, 10, 12, 13, 15, 16, 18, 19} : IsDigit(name[i])
    /\ \A i \in {5, 8, 14, 17} : name[i] = "-"
    /\ name[11] \in {" ", "_"}

\* m.group(1) and m.group(2)
Group1(name) == SubSeq(name, 1, 10)
Group2(name) == SubSeq(name, 12, 19)

\* lines 16-19
IMG_EXTS ==
    {<<".", "j", "p", "g">>,
     <<".", "j", "p", "e", "g">>,
     <<".", "p", "n", "g">>,
     <<".", "h", "e", "i", "c">>,
     <<".", "b", "m", "p">>,
     <<".", "g", "i", "f">>,
     <<".", "w", "e", "b", "p">>,
     <<".", "t", "i", "f", "f">>}

UpperCase == <<"A", "B", "C", "D", "E", "F", "G", "H", "I", "J", "K", "L", "M", "N", "O", "P", "Q", "R", "S", "T", "U", "V", "W", "X", "Y", "Z">>
LowerCase == <<"a", "b", "c", "d", "e", "f", "g", "h", "i", "j", "k", "l", "m", "n", "o", "p", "q", "r", "s", "t", "u", "v", "w", "x", "y", "z">>

\* str.lower()
Lower(str) ==
    [i \in 1..Len(str) |->
        IF \E n \in 1..Len(UpperCase) : UpperCase[n] = str[i]
        THEN LowerCase[CHOOSE n \in 1..Len(UpperCase) : UpperCase[n] = str[i]]
        ELSE str[i]]

\* pathlib's Path.suffix: from the last dot, unless the name starts or ends with it
Suffix(name) ==
    LET dots == {i \in 1..Len(name) : name[i] = "."}
    IN IF dots = {} THEN <<>>
       ELSE LET i == CHOOSE d \in dots : \A e \in dots : e <= d
            IN IF 1 < i /\ i < Len(name) THEN SubSeq(name, i, Len(name)) ELSE <<>>

IsLeap(y) == (y % 4 = 0 /\ y % 100 # 0) \/ y % 400 = 0

DaysInMonth(y, m) ==
    IF m = 2 THEN (IF IsLeap(y) THEN 29 ELSE 28)
    ELSE IF m \in {4, 6, 9, 11} THEN 30 ELSE 31

\* what the functions return instead of a date
None == <<>>

StrptimeLenient(str) ==
    IF /\ Len(str) = 19
       /\ \A i \in {1, 2, 3, 4, 6, 7, 9, 10, 12, 13, 15, 16, 18, 19} : IsDigit(str[i])
    THEN <<ToInt(SubSeq(str, 1, 4)), ToInt(SubSeq(str, 6, 7)), ToInt(SubSeq(str, 9, 10))>>
    ELSE None

\* lines 33-35: datetime.strptime(str, "%Y-%m-%d %H:%M:%S").date(), None standing
\* for the ValueError that line 36 catches
Strptime(str) ==
    IF /\ Len(str) = 19
       /\ \A i \in {1, 2, 3, 4, 6, 7, 9, 10, 12, 13, 15, 16, 18, 19} : IsDigit(str[i])
       /\ str[5] = "-" /\ str[8] = "-" /\ str[11] = " " /\ str[14] = ":" /\ str[17] = ":"
    THEN LET year == ToInt(SubSeq(str, 1, 4))
             month == ToInt(SubSeq(str, 6, 7))
             day == ToInt(SubSeq(str, 9, 10))
             hour == ToInt(SubSeq(str, 12, 13))
             minute == ToInt(SubSeq(str, 15, 16))
             second == ToInt(SubSeq(str, 18, 19))
         IN IF /\ year >= 1
               /\ month \in 1..12
               /\ day \in 1..DaysInMonth(year, month)
               /\ hour \in 0..23
               /\ minute \in 0..59
               /\ second \in 0..59
            THEN <<year, month, day>>
            ELSE None
    ELSE None

\* lines 22-37
parse_date_from_filename(name) ==
    IF ~DateReMatch(name) THEN None
    ELSE LET date_part == Group1(name)
             time_part == Replace(Group2(name), "-", ":")
         IN Strptime(date_part \o <<" ">> \o time_part)

\* the characters of the file names, in the order of their code points
Alphabet ==
    <<" ", "-", ".", "0", "1", "2", "3", "4", "5", "6", "7", "8", "9",
      ":", "A", "B", "C", "D", "E", "F", "G", "H", "I", "J", "K", "L", "M", "N", "O", "P", "Q", "R", "S", "T", "U", "V", "W", "X", "Y", "Z",
      "_", "a", "b", "c", "d", "e", "f", "g", "h", "i", "j", "k", "l", "m", "n", "o", "p", "q", "r", "s", "t", "u", "v", "w", "x", "y", "z">>

CharRank(c) == CHOOSE n \in 1..Len(Alphabet) : Alphabet[n] = c

\* a < b for strings
RECURSIVE StrLess(_, _)
StrLess(a, b) ==
    IF b = <<>> THEN FALSE
    ELSE IF a = <<>> THEN TRUE
    ELSE IF Head(a) = Head(b) THEN StrLess(Tail(a), Tail(b))
    ELSE CharRank(Head(a)) < CharRank(Head(b))

\* line 48: sorted(p.glob("*")), the paths ordered by name
RECURSIVE SortedByName(_)
SortedByName(fs) ==
    IF fs = <<>> THEN <<>>
    ELSE LET rest == SortedByName(Tail(fs))
             before == SelectSeq(rest, LAMBDA f : ~StrLess(Head(fs).name, f.name))
             after == SelectSeq(rest, LAMBDA f : StrLess(Head(fs).name, f.name))
         IN before \o <<Head(fs)>> \o after

\* lines 49-54: is this path kept?
Kept(f) ==
    /\ f.isfile
    /\ LET ext == Lower(Suffix(f.name))
       IN /\ ext \in IMG_EXTS \/ ext = <<>>
          /\ DateReMatch(f.name)

\* lines 40-55
find_files(dir) == SelectSeq(SortedByName(dir), Kept)

\* cnt[d] += 1 on a Counter
Increment(cnt, d) ==
    [x \in DOMAIN cnt \cup {d} |-> (IF x \in DOMAIN cnt THEN cnt[x] ELSE 0)
                                   + (IF x = d THEN 1 ELSE 0)]

\* lines 58-66
RECURSIVE aggregate_counts(_)
aggregate_counts(fs) ==
    IF fs = <<>> THEN <<>>
    ELSE LET cnt == aggregate_counts(SubSeq(fs, 1, Len(fs) - 1))
             d == parse_date_from_filename(fs[Len(fs)].name)
         IN IF d # None THEN Increment(cnt, d) ELSE cnt

(* Inputs of the aggregation: the snapshots cameraPC.py writes and the
   other entries a folder can hold *)

MaxFiles == 2         \* entries of the scanned folder

Stamp(y, mo, d, h, mi, sec) ==
    [year |-> y, month |-> mo, day |-> d, hour |-> h, minute |-> mi, second |-> sec]

\* values of datetime.datetime.now()
Stamps ==
    {Stamp(ymd[1], ymd[2], ymd[3], hms[1], hms[2], hms[3]) :
        ymd \in {<<2024, 2, 29>>, <<2025, 1, 1>>, <<2025, 10, 22>>, <<2025, 12, 31>>},
        hms \in {<<0, 0, 0>>, <<9, 5, 7>>, <<23, 59, 59>>}}

\* a directory entry; by holds the time stamp of a snapshot of cameraPC.py
Entry(n, f, t) == [name |-> n, isfile |-> f, by |-> t]

Stray(n, f) == Entry(n, f, <<>>)

Strays ==
    {
     \* separated by an underscore, extension in capitals
     Stray(<<"2", "0", "2", "5", "-", "1", "0", "-", "2", "2", "_", "1", "6", "-", "3", "3", "-", "3", "9", ".", "J", "P", "G">>,
           TRUE),
     \* no extension
     Stray(<<"2", "0", "2", "5", "-", "1", "0", "-", "2", "2", " ", "1", "6", "-", "3", "3", "-", "3", "9">>,
           TRUE),
     \* a directory
     Stray(<<"2", "0", "2", "5", "-", "1", "0", "-", "2", "2", " ", "1", "6", "-", "3", "3", "-", "3", "9">>,
           FALSE),
     \* not an image
     Stray(<<"2", "0", "2", "5", "-", "1", "0", "-", "2", "2", " ", "1", "6", "-", "3", "3", "-", "3", "9", ".", "t", "x", "t">>,
           TRUE),
     \* text after the time
     Stray(<<"2", "0", "2", "5", "-", "1", "0", "-", "2", "2", " ", "1", "6", "-", "3", "3", "-", "3", "9", "x", ".", "w", "e", "b", "p">>,
           TRUE),
     \* month 13
     Stray(<<"2", "0", "2", "5", "-", "1", "3", "-", "2", "2", " ", "1", "6", "-", "3", "3", "-", "3", "9", ".", "j", "p", "g">>,
           TRUE),
     \* hour 25
     Stray(<<"2", "0", "2", "5", "-", "1", "0", "-", "2", "2", " ", "2", "5", "-", "3", "3", "-", "3", "9", ".", "p", "n", "g">>,
           TRUE),
     \* no such day
     Stray(<<"2", "0", "2", "5", "-", "0", "2", "-", "2", "9", " ", "1", "6", "-", "3", "3", "-", "3", "9", ".", "j", "p", "g">>,
           TRUE),
     \* second 60
     Stray(<<"2", "0", "2", "5", "-", "1", "0", "-", "2", "2", " ", "1", "6", "-", "3", "3", "-", "6", "0", ".", "j", "p", "g">>,
           TRUE),
     \* year 0
     Stray(<<"0", "0", "0", "0", "-", "1", "0", "-", "2", "2", " ", "1", "6", "-", "3", "3", "-", "3", "9", ".", "j", "p", "g">>,
           TRUE),
     \* separated by a dash
     Stray(<<"2", "0", "2", "5", "-", "1", "0", "-", "2", "2", "-", "1", "6", "-", "3", "3", "-", "3", "9", ".", "j", "p", "g">>,
           TRUE),
     \* colons
     Stray(<<"2", "0", "2", "5", "-", "1", "0", "-", "2", "2", " ", "1", "6", ":", "3", "3", ":", "3", "9", ".", "j", "p", "g">>,
           TRUE),
     \* no date
     Stray(<<"I", "M", "G", "_", "0", "0", "0", "1", ".", "j", "p", "g">>,
           TRUE)}

\* cameraPC.py line 105: a snapshot taken at t is stored, replacing the
\* snapshot of the same name if there is one
Snapshot(t) ==
    /\ ~scanned
    /\ Len(folder) < MaxFiles
    /\ folder' = Append(SelectSeq(folder, LAMBDA f : f.by = <<>> \/ f.name # FileName(t)),
                        Entry(FileName(t), TRUE, <<t>>))
    /\ UNCHANGED <<files, counts, scanned>>
    /\ UNCHANGED <<pc, clock, last_save_time, contours, moving_boxes, idx, car_found,
                   calls, drawn, fired, events, released, present, dets, ioVars>>

\* something else is put into the folder
Other(e) ==
    /\ ~scanned
    /\ Len(folder) < MaxFiles
    /\ folder' = Append(folder, e)
    /\ UNCHANGED <<files, counts, scanned>>
    /\ UNCHANGED <<pc, clock, last_save_time, contours, moving_boxes, idx, car_found,
                   calls, drawn, fired, events, released, present, dets, ioVars>>

\* carAggregate.py lines 92-116: main, up to the plot
Main ==
    /\ ~scanned
    /\ files' = find_files(folder)
    /\ counts' = IF find_files(folder) = <<>> THEN counts
                 ELSE aggregate_counts(find_files(folder))
    /\ scanned' = TRUE
    /\ UNCHANGED folder
    /\ UNCHANGED <<pc, clock, last_save_time, contours, moving_boxes, idx, car_found,
                   calls, drawn, fired, events, released, present, dets, ioVars>>

AggNext ==
    \/ \E t \in Stamps : Snapshot(t)
    \/ \E e \in Strays : Other(e)
    \/ Main

AggSpec == Init /\ [][AggNext]_vars

----------------------------------------------------------------------------
(* Properties *)

Range(s) == {s[i] : i \in 1..Len(s)}

\* C1: in every iteration the gate saves a photo exactly when the detection
\* phase ended with car_found and the time since last_save_time is strictly
\* more than SAVE_COOLDOWN; a save appends one capture event and sets
\* last_save_time to the time read at line 107, anything else leaves both alone.
C1_FiringRule ==
    [][pc = "gate" =>
         LET due == car_found /\ clock - last_save_time > SAVE_COOLDOWN
         IN /\ fired' <=> due
            /\ due => /\ events' = Append(events, clock)
                      /\ last_save_time' = clock'
                      /\ clock' >= clock
            /\ ~due => /\ events' = events
                       /\ last_save_time' = last_save_time]_vars

\* a second capture has just been saved, exactly SAVE_COOLDOWN + 1 after the first
C1_Witness ==
    /\ pc = "show"
    /\ fired
    /\ Len(events) = 2
    /\ events[2] = events[1] + SAVE_COOLDOWN + 1
    /\ last_save_time = clock

\* the frame times of the one-frame-per-second run at which a capture fired
ScenarioFired == {e - StartTime : e \in Range(events)}

\* the frames of that run whose gate has been evaluated
ScenarioGated == {t \in 0..LongHorizon : t < clock - StartTime
                                         \/ (t = clock - StartTime /\ pc = "show")}

\* C2: with a vehicle on every frame and frames at t = 0, 1, 2, ... seconds
\* after the start, captures fire at t = 0, 11 and 22 and at no other frame
\* up to t = 25.
C2_Scenario ==
    /\ ScenarioFired = ScenarioGated \cap {0, SAVE_COOLDOWN + 1, 2 * (SAVE_COOLDOWN + 1)}
    /\ Len(events) = Cardinality(ScenarioFired)

\* the frame at t = 25 is done and the three captures are those of t = 0, 11, 22
C2_Witness ==
    /\ pc = "show"
    /\ clock = StartTime + 25
    /\ events = <<StartTime, StartTime + 11, StartTime + 22>>

\* C3: two consecutive capture events are strictly more than SAVE_COOLDOWN apart.
C3_OnePerWindow ==
    \A i \in 1..(Len(events) - 1) : events[i + 1] - events[i] > SAVE_COOLDOWN

\* two captures within one uninterrupted stay of a vehicle: the second one
\* came as early as the gate allows
C3_Witness ==
    /\ Len(events) = 2
    /\ events[2] - events[1] = SAVE_COOLDOWN + 1
    /\ fired

\* C4: while every frame shows a vehicle, the loop keeps running and time
\* keeps advancing, a capture that leaves room for a frame later than
\* SAVE_COOLDOWN after it is followed by another capture (the flag of the
\* iteration goes down and up again); no frame without a vehicle is needed in
\* between, and the capture comes at the first such frame: an iteration that
\* did not save was within the cooldown.
C4_RefireInRun ==
    /\ [](fired /\ last_save_time + SAVE_COOLDOWN < StartTime + LongHorizon
            => <>(~fired /\ <>fired))
    /\ [](pc = "show" /\ ~fired => clock - last_save_time <= SAVE_COOLDOWN)

\* the third capture of an uninterrupted stay
C4_Witness ==
    /\ pc = "show"
    /\ fired
    /\ Len(events) = 3

\* the first frames of the maximal runs of detecting frames
RunStarts(s) == {i \in 1..Len(s) : s[i] /\ (i = 1 \/ ~s[i - 1])}

\* C5: the gate with the single boolean `present` fires exactly once per
\* maximal run of detecting frames, at the first frame of the run; on
\* F,F,T,T,T,F,T it fires twice, at positions 3 and 7.
C5_EdgeTriggered ==
    /\ Range(events) = RunStarts(dets)
    /\ Len(events) = Cardinality(RunStarts(dets))
    /\ present = (dets # <<>> /\ dets[Len(dets)])
    /\ dets = <<FALSE, FALSE, TRUE, TRUE, TRUE, FALSE, TRUE>> => events = <<3, 7>>

C5_Witness ==
    /\ dets = <<FALSE, FALSE, TRUE, TRUE, TRUE, FALSE, TRUE>>
    /\ events = <<3, 7>>

\* the orders in which a list can be enumerated
Orders(s) == {[i \in 1..Len(s) |-> s[p[i]]] : p \in Permutations(1..Len(s))}

\* a region with each answer of the model in any order
RegionOrders(r) ==
    {[r EXCEPT !.res = a, !.resMarked = b] : a \in Orders(r.res), b \in Orders(r.resMarked)}

RECURSIVE Variants(_)
Variants(o) ==
    IF o = <<>> THEN {<<>>}
    ELSE {<<v>> \o t : v \in RegionOrders(Head(o)), t \in Variants(Tail(o))}

\* the frame's regions in any order, each answer of the model in any order
Arrangements(boxes) == UNION {Variants(o) : o \in Orders(boxes)}

\* C6: car_found at the end of the detection phase, and with it the decision
\* of the gate and the resulting last_save_time, is the same for every order
\* of the moving regions and every order of each region's detections.
C6_OrderIndependent ==
    pc = "gate" =>
        \A q \in Arrangements(moving_boxes) :
            LET found == DetectAll(q).car_found
            IN /\ found = car_found
               /\ (found /\ clock - last_save_time > SAVE_COOLDOWN)
                    <=> (car_found /\ clock - last_save_time > SAVE_COOLDOWN)

\* two regions whose order changes what the model is asked and what is drawn,
\* with the gate about to save
C6_Witness ==
    /\ pc = "gate"
    /\ Len(moving_boxes) = 2
    /\ car_found
    /\ clock - last_save_time > SAVE_COOLDOWN
    /\ \E q \in Arrangements(moving_boxes) : DetectAll(q).drawn # drawn

\* the boxes the model returned in this iteration
Returned == UNION {Range(calls[k].out) : k \in 1..Len(calls)}

\* C7: at the end of the detection phase car_found holds exactly when some
\* region with a non-empty crop produced a box whose class is in CAR_CLASSES
\* and whose confidence is at least CONF_THRESH; other boxes set nothing and
\* the loop goes on to the gate.
C7_QualifyingFilter ==
    pc \in {"gate", "show"} =>
        /\ car_found <=> \E b \in Returned : b.cls \in {2, 3, 5, 7} /\ b.conf >= 50
        /\ \A k \in 1..Len(calls) :
              LET r == moving_boxes[calls[k].i]
              IN /\ r.w > 0 /\ r.h > 0 /\ r.x < FRAME_WIDTH /\ r.y < FRAME_HEIGHT
                 /\ calls[k].out \in {r.res, r.resMarked}

\* car_found rests on a box exactly at the threshold, beside one of another class
C7_Witness ==
    /\ pc = "gate"
    /\ car_found
    /\ \E b \in Returned : b.cls \notin CAR_CLASSES
    /\ \A b \in Returned : b.cls \in CAR_CLASSES => b.conf = CONF_THRESH

\* the regions whose crop has no pixel
EmptyCrops == {i \in 1..Len(moving_boxes) :
                  LET r == moving_boxes[i]
                  IN r.w = 0 \/ r.h = 0 \/ r.x >= FRAME_WIDTH \/ r.y >= FRAME_HEIGHT}

\* moving_boxes without the regions of empty crop
NonEmptyBoxes == SelectSeq(moving_boxes, LAMBDA r : r \in {moving_boxes[i] :
                                         i \in (1..Len(moving_boxes)) \ EmptyCrops})

\* C8: model.predict is never called for a region of empty crop, such a
\* region changes neither car_found nor what is drawn, and every other
\* region of the frame is still processed.
C8_EmptyCropSkipped ==
    /\ \A k \in 1..Len(calls) : calls[k].i \notin EmptyCrops
    /\ pc \in {"gate", "show"} =>
          /\ {calls[k].i : k \in 1..Len(calls)} = (1..Len(moving_boxes)) \ EmptyCrops
          /\ Len(calls) = Len(moving_boxes) - Cardinality(EmptyCrops)
          /\ car_found = DetectAll(NonEmptyBoxes).car_found
          /\ drawn = DetectAll(NonEmptyBoxes).drawn

\* an empty crop over a vehicle comes first, the region after it is processed
C8_Witness ==
    /\ pc = "gate"
    /\ Len(moving_boxes) = 2
    /\ EmptyCrops = {1}
    /\ \E k \in 1..Len(moving_boxes[1].res) : Qualifies(moving_boxes[1].res[k])
    /\ Len(calls) = 1
    /\ calls[1].i = 2
    /\ ~car_found

\* C9: moving_boxes holds the bounding boxes of exactly the contours whose
\* area is strictly greater than MIN_CONTOUR_AREA, in the order of the contours.
C9_StrictAreaThreshold ==
    LET kept == SelectSeq(contours, LAMBDA c : c.area > 500)
    IN /\ moving_boxes = [j \in 1..Len(kept) |-> BoundingRect(kept[j])]
       /\ Len(moving_boxes) = Cardinality({i \in 1..Len(contours) : ~(contours[i].area <= 500)})

\* a contour of exactly MIN_CONTOUR_AREA is dropped, the one a pixel larger kept
C9_Witness ==
    /\ pc = "detect"
    /\ Len(contours) = 2
    /\ contours[1].area = MIN_CONTOUR_AREA
    /\ contours[2].area = MIN_CONTOUR_AREA + 1
    /\ moving_boxes = <<BoundingRect(contours[2])>>

\* no contour of the frame is above the area threshold
NoForeground == \A i \in 1..Len(contours) : contours[i].area <= MIN_CONTOUR_AREA

\* C10: on a frame without a contour above the threshold moving_boxes is
\* empty, model.predict is not called and the gate saves nothing, whatever
\* last_save_time is.
C10_NoForeground ==
    /\ [](pc \in {"detect", "gate", "show"} /\ NoForeground
            => moving_boxes = <<>> /\ calls = <<>> /\ ~car_found /\ ~fired /\ pc # "detect")
    /\ [][pc = "gate" /\ NoForeground
            => events' = events /\ last_save_time' = last_save_time /\ ~fired']_vars

\* contours below the threshold only, a vehicle under one of them, the last
\* save long ago: nothing was saved
C10_Witness ==
    /\ pc = "show"
    /\ contours # <<>>
    /\ NoForeground
    /\ \E i \in 1..Len(contours) : \E k \in 1..Len(contours[i].res) :
           Qualifies(contours[i].res[k])
    /\ events # <<>>
    /\ clock - last_save_time > SAVE_COOLDOWN
    /\ ~fired

\* C11: when cap.read() reports failure the loop is left in that iteration:
\* the step changes nothing but ret and the position (no contours, no call of
\* the model, no capture event, no change of the gate); from then on no frame
\* is read, nothing fires, and the run ends with the camera released.
C11_SourceExhaustion ==
    /\ [](~ret => /\ pc \in {"cleanup", "stopped"}
                  /\ (pc = "stopped" => released))
    /\ [][/\ (ret /\ ~ret' => /\ pc = "read" /\ pc' = "cleanup"
                              /\ UNCHANGED <<contours, moving_boxes, calls, drawn, fired,
                                             events, names, last_save_time, clock>>)
          /\ (~ret => /\ ~ret'
                      /\ UNCHANGED <<contours, moving_boxes, calls, drawn, fired, events,
                                     names, last_save_time>>)]_vars

\* a read failed after a snapshot had been taken, and the run has ended
C11_Witness == ~ret /\ pc = "stopped" /\ released /\ Len(events) = 1

\* C12: the quit key is polled once per completed iteration, after the gate
\* (every iteration goes gate, show, and only show leads back to the read or,
\* on 'q', out of the loop); once 'q' is seen the loop is over: the camera is
\* released, no frame is read and no capture event fires any more.
C12_Cancellation ==
    /\ [](key => /\ pc \in {"cleanup", "stopped"}
                 /\ (pc = "stopped" => released))
    /\ [][/\ (pc = "gate" => pc' = "show")
          /\ (pc' = "show" => pc = "gate")
          /\ (pc = "show" => pc' \in {"read", "cleanup"})
          /\ (pc' = "read" => pc = "show")
          /\ (key' # key => pc = "show")
          /\ (key' /\ ~key => /\ pc' = "cleanup"
                               /\ UNCHANGED <<events, names, last_save_time, fired,
                                              written, contours, calls, drawn>>)
          /\ (key => /\ key'
                     /\ UNCHANGED <<contours, moving_boxes, calls, drawn, fired, events,
                                    names, last_save_time>>)]_vars

\* 'q' was seen in an iteration that had just saved a snapshot
C12_Witness == key /\ pc = "stopped" /\ released /\ fired /\ Len(events) = 1

\* C13: a failing inference call is not fatal: every step of the region loop,
\* one on which model.predict fails included, goes on to the next region or
\* to the gate of the same frame, and leaves last_save_time as it was.
C13_InferenceFailureNonFatal ==
    [][pc = "detect" => /\ pc' \in {"detect", "gate"}
                        /\ idx' = idx + 1
                        /\ last_save_time' = last_save_time]_vars

\* C14: a failing snapshot write is not fatal and not retried: the loop goes
\* on to the preview and the next frame, a file name is handed to cv2.imwrite
\* only by a gate that is satisfied in its own iteration, and an iteration
\* whose write failed does not report a saved snapshot.
C14_PersistenceFailure ==
    /\ [](fired /\ ~written => log # "saved")
    /\ [][/\ (pc = "gate" => pc' = "show")
          /\ (names' # names => /\ pc = "gate"
                                /\ ShouldSave(car_found, clock, last_save_time)
                                /\ Len(names') = Len(names) + 1)]_vars

\* C15: every capture event has a file of its own: the file names handed to
\* cv2.imwrite in a run are pairwise different, as many as the events fired.
C15_OneFilePerEvent == Cardinality({names[i] : i \in 1..Len(names)}) = Len(events)

\* C16: every snapshot name that cameraPC.py builds from a time stamp is kept
\* by find_files (it matches DATE_RE and its extension is in IMG_EXTS) and
\* parse_date_from_filename gives back the calendar date of the time stamp,
\* so the snapshot is counted on its day.
C16_NamingRoundTrip ==
    scanned =>
        \A i \in 1..Len(folder) :
            folder[i].by # <<>> =>
                LET t == folder[i].by[1]
                    n == folder[i].name
                    day == <<t.year, t.month, t.day>>
                IN /\ DateReMatch(n)
                   /\ Lower(Suffix(n)) \in IMG_EXTS
                   /\ \E k \in 1..Len(files) : files[k] = folder[i]
                   /\ parse_date_from_filename(n) = day
                   /\ day \in DOMAIN counts
                   /\ counts[day] >= 1

\* two snapshots of the leap day, the last second of the day among them, were counted
C16_Witness ==
    /\ scanned
    /\ Len(folder) = 2
    /\ folder[1].by = <<Stamp(2024, 2, 29, 23, 59, 59)>>
    /\ folder[2].by = <<Stamp(2024, 2, 29, 0, 0, 0)>>
    /\ counts = (<<2024, 2, 29>> :> 2)

\* the number between positions a and b of a name
Field(n, a, b) == ToInt(SubSeq(n, a, b))

\* a file that the claim counts on day d: an image or extension-less file
\* whose name starts with a date and a time that exist, the date being d
OnDate(e, d) ==
    /\ e.isfile
    /\ Lower(Suffix(e.name)) \in IMG_EXTS \/ Suffix(e.name) = <<>>
    /\ DateReMatch(e.name)
    /\ Field(e.name, 1, 4) >= 1
    /\ Field(e.name, 6, 7) \in 1..12
    /\ Field(e.name, 9, 10) \in 1..DaysInMonth(Field(e.name, 1, 4), Field(e.name, 6, 7))
    /\ Field(e.name, 12, 13) \in 0..23
    /\ Field(e.name, 15, 16) \in 0..59
    /\ Field(e.name, 18, 19) \in 0..59
    /\ d = <<Field(e.name, 1, 4), Field(e.name, 6, 7), Field(e.name, 9, 10)>>

\* the days asked about: those the names of the folder spell, existing or not
DaysAsked ==
    {<<Field(folder[i].name, 1, 4), Field(folder[i].name, 6, 7), Field(folder[i].name, 9, 10)>> :
        i \in {k \in 1..Len(folder) :
                 /\ Len(folder[k].name) >= 10
                 /\ \A c \in {1, 2, 3, 4, 6, 7, 9, 10} : IsDigit(folder[k].name[c])}}

\* C19: after the aggregation the count of every day is the number of
\* entries of the folder that are files with an image extension or none,
\* start with YYYY-MM-DD, a space or an underscore, and HH-MM-SS, and spell an
\* existing date and time on that day; every other entry (no match, another
\* extension, month 13, hour 25, ...) is counted on no day.
C19_AggregationCounts ==
    scanned =>
        \A d \in DOMAIN counts \cup DaysAsked :
            (IF d \in DOMAIN counts THEN counts[d] ELSE 0)
                = Cardinality({i \in 1..Len(folder) : OnDate(folder[i], d)})

\* a file of month 13 and a file of 2025-10-22 were scanned: one file counted
C19_Witness ==
    /\ scanned
    /\ Len(folder) = 2
    /\ folder[1].name = <<"2", "0", "2", "5", "-", "1", "3", "-", "2", "2", " ", "1", "6", "-", "3", "3", "-", "3", "9", ".", "j", "p", "g">>
    /\ folder[2].name = <<"2", "0", "2", "5", "-", "1", "0", "-", "2", "2", "_", "1", "6", "-", "3", "3", "-", "3", "9", ".", "J", "P", "G">>
    /\ Len(files) = 2
    /\ counts = (<<2025, 10, 22>> :> 1)

\* a box moved by the position of region r
Shifted(box, r) ==
    [cls |-> box.cls, conf |-> box.conf,
     x1 |-> box.x1 + r.x, y1 |-> box.y1 + r.y, x2 |-> box.x2 + r.x, y2 |-> box.y2 + r.y]

\* the qualifying boxes of the calls made, each moved by the position of its region
RECURSIVE ShiftedBoxes(_)
ShiftedBoxes(cs) ==
    IF cs = <<>> THEN <<>>
    ELSE LET c == cs[Len(cs)]
             q == SelectSeq(c.out, Qualifies)
         IN ShiftedBoxes(SubSeq(cs, 1, Len(cs) - 1))
            \o [k \in 1..Len(q) |-> Shifted(q[k], moving_boxes[c.i])]

\* C17: when every region given to the model is detect_size x detect_size,
\* the boxes drawn are exactly the qualifying raw boxes with x added to x1
\* and x2 and y added to y1 and y2.
C17_RemapIdentity ==
    (\A k \in 1..Len(calls) : /\ moving_boxes[calls[k].i].w = detect_size
                              /\ moving_boxes[calls[k].i].h = detect_size)
        => drawn = ShiftedBoxes(calls)

\* two regions of 640 x 640 at (64, 32); the box (0, 0, 640, 640) of the first is drawn
C17_Witness ==
    /\ pc = "gate"
    /\ Len(calls) = 2
    /\ \A k \in 1..2 : /\ moving_boxes[k].w = 640 /\ moving_boxes[k].h = 640
                       /\ moving_boxes[k].x = 64 /\ moving_boxes[k].y = 32
    /\ calls[1].out = <<BusEdge, Person>>
    /\ drawn = <<Box(5, 50, 64, 32, 704, 672)>>

\* the frame of the scenario: two moving regions, a of empty crop, b with
\* exactly one qualifying detection
TwoRegions(a, b) ==
    /\ Len(moving_boxes) = 2
    /\ {a, b} = {1, 2}
    /\ CropSize(moving_boxes[a]) = 0
    /\ CropSize(moving_boxes[b]) > 0
    /\ Len(SelectSeq(moving_boxes[b].res, Qualifies)) = 1

\* C18: for such a frame, with the cooldown over, the model was called once,
\* for b; one box is drawn, the detection of b scaled by w / 640 and h / 640
\* and moved by (x, y) of b; and the gate fires one capture event, for the
\* frame with that box, and none is added before the next frame.
C18_EndToEnd ==
    /\ [](\A a, b \in 1..2 :
            pc \in {"gate", "show"} /\ TwoRegions(a, b) =>
                LET B == moving_boxes[b]
                    q == SelectSeq(B.res, Qualifies)[1]
                IN /\ Len(calls) = 1
                   /\ calls[1].i = b
                   /\ drawn = <<[cls |-> q.cls, conf |-> q.conf,
                                 x1 |-> (q.x1 * B.w) \div 640 + B.x,
                                 y1 |-> (q.y1 * B.h) \div 640 + B.y,
                                 x2 |-> (q.x2 * B.w) \div 640 + B.x,
                                 y2 |-> (q.y2 * B.h) \div 640 + B.y]>>)
    /\ [][\A a, b \in 1..2 :
            TwoRegions(a, b) =>
                /\ (pc = "gate" /\ clock - last_save_time > SAVE_COOLDOWN
                       => /\ fired'
                          /\ Len(events') = Len(events) + 1
                          /\ drawn' = drawn)
                /\ (pc = "show" /\ pc' # "read" => events' = events)]_vars

\* the empty crop comes first, the car at (101, 201, 301, 401) of the 320 x 160
\* region at (100, 50) is drawn at (150, 100, 250, 150), and the snapshot is taken
C18_Witness ==
    /\ pc = "show"
    /\ TwoRegions(1, 2)
    /\ moving_boxes[2].w = 320 /\ moving_boxes[2].h = 160
    /\ Len(calls) = 1
    /\ drawn = <<Box(2, 90, 150, 100, 250, 150)>>
    /\ fired
    /\ Len(events) = 1

\* C20: last_save_time changes only on the step of a gate that fires a
\* capture event; a gate that does not fire (no qualifying detection, cooldown
\* not over, only empty crops or no regions) leaves it as it was; and it
\* never decreases.
C20_GateFrame ==
    [][/\ last_save_time' >= last_save_time
       /\ (last_save_time' # last_save_time
              => /\ pc = "gate"
                 /\ fired'
                 /\ Len(events') = Len(events) + 1)
       /\ (pc = "gate" /\ ~(car_found /\ clock - last_save_time > SAVE_COOLDOWN)
              => /\ ~fired'
                 /\ events' = events
                 /\ last_save_time' = last_save_time)]_vars

\* after a snapshot, a frame with a vehicle has passed the gate within the
\* cooldown: nothing fired, last_save_time is still that of the snapshot
C20_Witness ==
    /\ pc = "show"
    /\ car_found
    /\ ~fired
    /\ Len(events) = 1
    /\ last_save_time = events[1] + 1
    /\ clock > last_save_time

====
